---- MODULE Spec2Model ----
(***************************************************************************)
(* Voice-profile pipeline of the TTS personalization engine:               *)
(*   feature_extractor.py      pause segmentation, speaking-rate estimate  *)
(*   personalization_engine.py profile mapping, emotion rules, synthesis   *)
(*                             parameters, save/load of profiles           *)
(* Python floats are modelled as binary floating-point numbers with a      *)
(* MantissaBits-bit significand and round-to-nearest-even (IEEE-754        *)
(* binary64 has 53 bits; the exponent range is not limited here).          *)
(***************************************************************************)
EXTENDS Integers, Sequences, FiniteSets, TLC

\* ------------------------------------------------------------------------
\* Bounds of the model
\* ------------------------------------------------------------------------
MantissaBits == 8
MaxPauses == 2          \* longest pause list given to the rate estimator
MaxFrames == 4          \* longest energy sequence given to the pause segmenter

\* ------------------------------------------------------------------------
\* Floating-point arithmetic (Python float / numpy float64)
\*   a float is [m |-> significand, e |-> exponent], value m * 2^e,
\*   canonical: m = 0 /\ e = 0, or 2^(MantissaBits-1) <= |m| < 2^MantissaBits
\* ------------------------------------------------------------------------
RECURSIVE Pow2(_)
Pow2(k) == IF k <= 0 THEN 1 ELSE 2 * Pow2(k - 1)

Abs(x) == IF x < 0 THEN -x ELSE x

FZero == [m |-> 0, e |-> 0]

\* nearest integer to n/d (n >= 0, d > 0), ties to even
RoundHalfEven(n, d) ==
  LET q == n \div d
      r == n % d
  IN  IF 2 * r < d THEN q
      ELSE IF 2 * r > d THEN q + 1
      ELSE IF q % 2 = 0 THEN q ELSE q + 1

\* the float nearest to (n/d) * 2^e, for n >= 0 and d > 0
RECURSIVE FRound(_, _, _)
FRound(n, d, e) ==
  IF n = 0 THEN FZero
  ELSE IF n >= d * Pow2(MantissaBits) THEN FRound(n, 2 * d, e + 1)
  ELSE IF n < d * Pow2(MantissaBits - 1) THEN FRound(2 * n, d, e - 1)
  ELSE LET m == RoundHalfEven(n, d)
       IN  IF m = Pow2(MantissaBits)
           THEN [m |-> Pow2(MantissaBits - 1), e |-> e + 1]
           ELSE [m |-> m, e |-> e]

\* the float nearest to the rational (n/d) * 2^e, any sign of n
FRat(n, d, e) ==
  IF n < 0 THEN LET r == FRound(-n, d, e) IN [m |-> -(r.m), e |-> r.e]
  ELSE FRound(n, d, e)

\* float(n) for an integer n
F(n) == FRat(n, 1, 0)

FNeg(a) == [m |-> -(a.m), e |-> a.e]

FMul(a, b) == FRat(a.m * b.m, 1, a.e + b.e)

FDiv(a, b) ==
  IF (a.m < 0) = (b.m < 0)
  THEN FRound(Abs(a.m), Abs(b.m), a.e - b.e)
  ELSE FNeg(FRound(Abs(a.m), Abs(b.m), a.e - b.e))

FAdd(a, b) ==
  IF a.m = 0 THEN b
  ELSE IF b.m = 0 THEN a
  ELSE IF a.e - b.e > MantissaBits + 2 THEN a
  ELSE IF b.e - a.e > MantissaBits + 2 THEN b
  ELSE LET e == IF a.e < b.e THEN a.e ELSE b.e
       IN  FRat(a.m * Pow2(a.e - e) + b.m * Pow2(b.e - e), 1, e)

FSub(a, b) == FAdd(a, FNeg(b))

\* a < b
FLt(a, b) ==
  IF a.m <= 0 /\ b.m > 0 THEN a.m < 0 \/ b.m > 0
  ELSE IF a.m >= 0 /\ b.m <= 0 THEN FALSE
  ELSE IF a.m < 0 /\ b.m = 0 THEN TRUE
  ELSE IF a.m > 0
       THEN \/ a.e < b.e
            \/ a.e = b.e /\ a.m < b.m
       ELSE \/ a.e > b.e
            \/ a.e = b.e /\ a.m < b.m

FGt(a, b) == FLt(b, a)
FLe(a, b) == ~FLt(b, a)
FGe(a, b) == ~FLt(a, b)

RECURSIVE FSum(_)
\* sum(xs) / np.sum(xs): left to right, starting from 0
FSum(xs) == IF xs = <<>> THEN FZero
            ELSE FAdd(FSum(SubSeq(xs, 1, Len(xs) - 1)), xs[Len(xs)])
\* ------------------------------------------------------------------------
\* Python values: a number is [ty |-> "int" | "float" | "np.float64", v |-> float]
\* ------------------------------------------------------------------------
None == <<>>
Some(x) == <<x>>

PyInt(n) == [ty |-> "int", v |-> F(n)]
PyFloat(f) == [ty |-> "float", v |-> f]
NpFloat(f) == [ty |-> "np.float64", v |-> f]

\* a tuple or list of numbers
PyTuple(items) == [ty |-> "tuple", items |-> items]
PyList(items) == [ty |-> "list", items |-> items]

\* type of the result of a binary arithmetic operation
ResultType(t1, t2) ==
  IF t1 = "np.float64" \/ t2 = "np.float64" THEN "np.float64"
  ELSE IF t1 = "float" \/ t2 = "float" THEN "float"
  ELSE "int"

PyAdd(x, y) == [ty |-> ResultType(x.ty, y.ty), v |-> FAdd(x.v, y.v)]
PySub(x, y) == [ty |-> ResultType(x.ty, y.ty), v |-> FSub(x.v, y.v)]
PyMul(x, y) == [ty |-> ResultType(x.ty, y.ty), v |-> FMul(x.v, y.v)]
\* true division: int / int is a float
PyDiv(x, y) ==
  [ty |-> IF ResultType(x.ty, y.ty) = "int" THEN "float" ELSE ResultType(x.ty, y.ty),
   v |-> FDiv(x.v, y.v)]

RECURSIVE PySum(_)
\* sum(xs): 0 + xs[1] + ... + xs[n]
PySum(xs) == IF xs = <<>> THEN PyInt(0)
             ELSE PyAdd(PySum(SubSeq(xs, 1, Len(xs) - 1)), xs[Len(xs)])

\* ------------------------------------------------------------------------
\* feature_extractor.py
\* ------------------------------------------------------------------------
DefaultSr == 22050
WordsPerSecond == FRat(5, 2, 0)      \* 2.5

\* outcome of a call: a returned value (None is Python's None) or a raised exception
Returned(v) == [raised |-> FALSE, exc |-> "", value |-> v]
Raised(name) == [raised |-> TRUE, exc |-> name, value |-> None]

HopLength == 512

\* librosa.frames_to_time(i, sr, hop_length): i * hop_length / sr
frames_to_time(i, sr) == NpFloat(FRat(i * HopLength, sr, 0))

RECURSIVE InsertSorted(_, _)
InsertSorted(x, xs) ==
  IF xs = <<>> THEN <<x>>
  ELSE IF FLe(x, Head(xs)) THEN <<x>> \o xs
  ELSE <<Head(xs)>> \o InsertSorted(x, Tail(xs))

RECURSIVE SortFloats(_)
SortFloats(xs) == IF xs = <<>> THEN <<>>
                  ELSE InsertSorted(Head(xs), SortFloats(Tail(xs)))

\* np.percentile(energy, q), linear interpolation between the two order
\* statistics around the virtual index (n - 1) * q / 100; energy is not empty
Percentile(energy, q) ==
  LET sorted == SortFloats(energy)
      n == Len(energy)
      lo == ((n - 1) * q) \div 100
      t == FRat(((n - 1) * q) % 100, 100, 0)
      a == sorted[lo + 1]
      b == IF lo + 2 <= n THEN sorted[lo + 2] ELSE sorted[n]
  IN  FAdd(a, FMul(FSub(b, a), t))

\* mutation: frames at the threshold count as paused too
PauseFramesInclusive(energy, q) ==
  LET threshold == Percentile(energy, q)
  IN  [i \in 1 .. Len(energy) |-> FLe(energy[i], threshold)]

\* pause_frames = energy < threshold
PauseFrames(energy, q) ==
  LET threshold == Percentile(energy, q)
  IN  [i \in 1 .. Len(energy) |-> FLt(energy[i], threshold)]

\* the loop over enumerate(pause_frames), from 0-based frame i on; found holds
\* one record per append to pause_durations
RECURSIVE ScanPauses(_, _, _, _, _, _)
RECURSIVE ScanPausesCloseTrailing(_, _, _, _, _, _)
\* mutation: a pause still open after the last frame is closed at the last frame
ScanPausesCloseTrailing(pause_frames, sr, i, in_pause, pause_start, found) ==
  IF i >= Len(pause_frames)
  THEN IF in_pause
       THEN Append(found,
              [pause_start |-> pause_start,
               pause_end |-> frames_to_time(Len(pause_frames) - 1, sr),
               duration |-> PySub(frames_to_time(Len(pause_frames) - 1, sr), pause_start)])
       ELSE found
  ELSE LET is_paused == pause_frames[i + 1]
       IN  IF is_paused /\ ~in_pause
           THEN ScanPausesCloseTrailing(pause_frames, sr, i + 1, TRUE,
                                        frames_to_time(i, sr), found)
           ELSE IF ~is_paused /\ in_pause
           THEN LET pause_end == frames_to_time(i, sr)
                    duration == PySub(pause_end, pause_start)
                IN  ScanPausesCloseTrailing(pause_frames, sr, i + 1, FALSE, pause_start,
                               Append(found, [pause_start |-> pause_start,
                                              pause_end |-> pause_end,
                                              duration |-> duration]))
           ELSE ScanPausesCloseTrailing(pause_frames, sr, i + 1, in_pause,
                                        pause_start, found)

ScanPauses(pause_frames, sr, i, in_pause, pause_start, found) ==
  IF i >= Len(pause_frames) THEN found
  ELSE LET is_paused == pause_frames[i + 1]
       IN  IF is_paused /\ ~in_pause
           THEN ScanPauses(pause_frames, sr, i + 1, TRUE, frames_to_time(i, sr), found)
           ELSE IF ~is_paused /\ in_pause
           THEN LET pause_end == frames_to_time(i, sr)
                    duration == PySub(pause_end, pause_start)
                IN  ScanPauses(pause_frames, sr, i + 1, FALSE, pause_start,
                               Append(found, [pause_start |-> pause_start,
                                              pause_end |-> pause_end,
                                              duration |-> duration]))
           ELSE ScanPauses(pause_frames, sr, i + 1, in_pause, pause_start, found)

\* the pauses found in a non-empty energy sequence, with the bounds of each
FoundPauses(energy, q, sr) ==
  ScanPauses(PauseFrames(energy, q), sr, 0, FALSE, PyInt(0), <<>>)

\* the returned list pause_durations
extract_pauses(energy, q, sr) ==
  LET found == FoundPauses(energy, q, sr)
  IN  [k \in 1 .. Len(found) |-> found[k].duration]

\* np.percentile of an empty array: NaN in older numpy releases (no frame is
\* below NaN, the list stays empty), IndexError in newer ones
extract_pauses_outcomes(energy, q, sr) ==
  IF energy = <<>>
  THEN {Returned(Some(<<>>)), Raised("IndexError")}
  ELSE {Returned(Some(extract_pauses(energy, q, sr)))}

\* speaking_time = total_duration - total_pause_time
SpeakingTime(audio_len, sr, pause_durations) ==
  LET total_duration == PyFloat(FRat(audio_len, sr, 0))   \* len(audio) / self.sr
      total_pause_time == IF pause_durations # <<>> THEN PySum(pause_durations)
                          ELSE PyInt(0)
  IN  PySub(total_duration, total_pause_time)

\* mutation: the guard accepts every non-zero speaking time
calculate_speaking_rate_nonzero(audio_len, sr, pause_durations) ==
  LET speaking_time == SpeakingTime(audio_len, sr, pause_durations)
      estimated_words == PyMul(speaking_time, PyFloat(WordsPerSecond))
  IN  IF speaking_time.v.m # 0
      THEN PyMul(PyDiv(estimated_words, speaking_time), PyInt(60))
      ELSE PyInt(0)

calculate_speaking_rate(audio_len, sr, pause_durations) ==
  LET speaking_time == SpeakingTime(audio_len, sr, pause_durations)
      estimated_words == PyMul(speaking_time, PyFloat(WordsPerSecond))
  IN  IF FGt(speaking_time.v, FZero)
      THEN PyMul(PyDiv(estimated_words, speaking_time), PyInt(60))
      ELSE PyInt(0)
RECURSIVE FMin(_)
FMin(xs) == IF Len(xs) = 1 THEN xs[1]
            ELSE LET r == FMin(Tail(xs)) IN IF FLt(xs[1], r) THEN xs[1] ELSE r

RECURSIVE FMax(_)
FMax(xs) == IF Len(xs) = 1 THEN xs[1]
            ELSE LET r == FMax(Tail(xs)) IN IF FGt(xs[1], r) THEN xs[1] ELSE r

\* np.mean / np.nanmean of a non-empty sequence of floats
FMean(xs) == FDiv(FSum(xs), F(Len(xs)))

\* an audio signal is [len |-> number of samples, energy |-> per-frame energy in
\* dB as librosa returns it, f0_voiced |-> the pitch of the voiced frames as
\* librosa.pyin returns it]

\* extract_pitch(audio): None without voiced frames, else the voiced pitch
\* values and their statistics (the standard deviation is only logged)
extract_pitch(audio) ==
  IF Len(audio.f0_voiced) = 0 THEN None
  ELSE Some([f0_voiced |-> audio.f0_voiced,
             min_pitch |-> NpFloat(FMin(audio.f0_voiced)),
             max_pitch |-> NpFloat(FMax(audio.f0_voiced)),
             mean_pitch |-> NpFloat(FMean(audio.f0_voiced))])

DefaultPercentile == 25

\* SpeakingPatterns(...) compiled from the pitch data and the pauses
SpeakingPatterns(audio, sr, pitch_data, pauses) ==
  [speaking_rate_wpm |-> calculate_speaking_rate(audio.len, sr, pauses),
   average_pause_duration |->
     IF pauses # <<>>
     THEN NpFloat(FMean([k \in 1 .. Len(pauses) |-> pauses[k].v]))
     ELSE PyInt(0),
   energy_levels |-> audio.energy,
   pitch_contour |-> pitch_data.f0_voiced,
   mean_pitch |-> pitch_data.mean_pitch,
   pitch_range |-> PyTuple(<<pitch_data.min_pitch, pitch_data.max_pitch>>)]

\* mutation: the missing pitch is not checked and a zero pitch is used
extract_all_features_unchecked(audio, sr) ==
  LET pd == extract_pitch(audio)
      pitch_data == IF pd = None
                    THEN [f0_voiced |-> <<>>, min_pitch |-> NpFloat(FZero),
                          max_pitch |-> NpFloat(FZero), mean_pitch |-> NpFloat(FZero)]
                    ELSE pd[1]
  IN  {IF o.raised THEN o
       ELSE Returned(Some(SpeakingPatterns(audio, sr, pitch_data, o.value[1]))) :
         o \in extract_pauses_outcomes(audio.energy, DefaultPercentile, sr)}

\* extract_all_features(audio): the possible outcomes
extract_all_features(audio, sr) ==
  LET pitch_data == extract_pitch(audio)
  IN  IF pitch_data = None THEN {Returned(None)}
      ELSE {IF o.raised THEN o
            ELSE Returned(Some(SpeakingPatterns(audio, sr, pitch_data[1], o.value[1]))) :
              o \in extract_pauses_outcomes(audio.energy, DefaultPercentile, sr)}

\* ------------------------------------------------------------------------
\* personalization_engine.py
\* ------------------------------------------------------------------------
\* VoiceProfile(user_id, user_name): the fields as __init__ leaves them
\* (created_date and last_updated are not modelled)
VoiceProfile(user_id, user_name) ==
  [user_id |-> user_id,
   user_name |-> user_name,
   speaking_rate_wpm |-> None,
   average_pause_duration |-> None,
   mean_pitch |-> None,
   pitch_range |-> None,
   emotion_profile |-> None,      \* the empty dict {}
   energy_levels |-> None,
   pitch_contour |-> None]

HIGH_PITCH == F(200)
LOW_PITCH == F(130)
HIGH_RANGE == F(80)
LOW_RANGE == F(40)
FAST_RATE == F(160)
SLOW_RATE == F(110)
HIGH_ENERGY == F(45)
LOW_ENERGY == F(35)

\* the keys of scores in insertion order
Labels == <<"happy", "sad", "angry", "calm", "neutral">>
LabelSet == {Labels[k] : k \in 1 .. Len(Labels)}

\* scores are kept in half points: 2 stands for 1, 1 for 0.5
Weights(happy, sad, angry, calm, neutral) ==
  [l \in LabelSet |-> CASE l = "happy" -> happy
                        [] l = "sad" -> sad
                        [] l = "angry" -> angry
                        [] l = "calm" -> calm
                        [] l = "neutral" -> neutral]

\* mutation: a rule assigns its weights instead of adding them
ApplyRuleAssign(st, cond, w, rule) ==
  IF cond
  THEN [scores |-> [l \in LabelSet |-> IF w[l] # 0 THEN w[l] ELSE st.scores[l]],
        rules_triggered |-> Append(st.rules_triggered, rule)]
  ELSE st

\* if cond: scores[...] += ...; rules_triggered.append(rule)
ApplyRule(st, cond, w, rule) ==
  IF cond
  THEN [scores |-> [l \in LabelSet |-> st.scores[l] + w[l]],
        rules_triggered |-> Append(st.rules_triggered, rule)]
  ELSE st

\* the four features read from the profile
EmotionFeatures(profile) ==
  [mean_pitch |-> IF profile.mean_pitch # None /\ profile.mean_pitch[1].v # FZero
                  THEN profile.mean_pitch[1].v ELSE FZero,
   pitch_range |-> IF profile.pitch_range # None
                      /\ Len(profile.pitch_range[1].items) = 2
                   THEN FSub(profile.pitch_range[1].items[2].v,
                             profile.pitch_range[1].items[1].v)
                   ELSE FZero,
   speaking_rate_wpm |-> IF profile.speaking_rate_wpm # None
                            /\ profile.speaking_rate_wpm[1].v # FZero
                         THEN profile.speaking_rate_wpm[1].v ELSE FZero,
   avg_energy |-> IF profile.energy_levels # None /\ profile.energy_levels[1] # <<>>
                  THEN FDiv(FSum(profile.energy_levels[1]),
                            F(Len(profile.energy_levels[1])))
                  ELSE FZero]

\* mutation: the bounds of the middle bands are excluded
MidPitchMidRangeStrict(f) ==
  /\ FLt(LOW_PITCH, f.mean_pitch) /\ FLt(f.mean_pitch, HIGH_PITCH)
  /\ FLt(LOW_RANGE, f.pitch_range) /\ FLt(f.pitch_range, HIGH_RANGE)

\* LOW_PITCH <= mean_pitch <= HIGH_PITCH and LOW_RANGE <= pitch_range <= HIGH_RANGE
MidPitchMidRange(f) ==
  /\ FLe(LOW_PITCH, f.mean_pitch) /\ FLe(f.mean_pitch, HIGH_PITCH)
  /\ FLe(LOW_RANGE, f.pitch_range) /\ FLe(f.pitch_range, HIGH_RANGE)

\* the ten rules, applied one after the other
EmotionRules(f) ==
  LET s0 == [scores |-> Weights(0, 0, 0, 0, 0), rules_triggered |-> <<>>]
      s1 == ApplyRule(s0, FGt(f.mean_pitch, HIGH_PITCH),
                      Weights(2, 0, 1, 0, 0), "high_mean_pitch")
      s2 == ApplyRule(s1, FGt(f.pitch_range, HIGH_RANGE),
                      Weights(2, 0, 2, 0, 0), "large_pitch_range")
      s3 == ApplyRule(s2, FGt(f.speaking_rate_wpm, FAST_RATE),
                      Weights(1, 0, 1, 0, 0), "fast_speaking_rate")
      s4 == ApplyRule(s3, FGt(f.avg_energy, HIGH_ENERGY),
                      Weights(1, 0, 2, 0, 0), "high_energy")
      s5 == ApplyRule(s4, FLt(f.mean_pitch, LOW_PITCH),
                      Weights(0, 2, 0, 0, 0), "low_mean_pitch")
      s6 == ApplyRule(s5, FLt(f.pitch_range, LOW_RANGE),
                      Weights(0, 1, 0, 1, 0), "small_pitch_range")
      s7 == ApplyRule(s6, FLt(f.speaking_rate_wpm, SLOW_RATE),
                      Weights(0, 1, 0, 1, 0), "slow_speaking_rate")
      s8 == ApplyRule(s7, FLt(f.avg_energy, LOW_ENERGY),
                      Weights(0, 1, 0, 1, 0), "low_energy")
      s9 == ApplyRule(s8, MidPitchMidRange(f),
                      Weights(0, 0, 0, 0, 1), "mid_pitch_mid_range")
      s10 == ApplyRule(s9, /\ FLt(SLOW_RATE, f.speaking_rate_wpm)
                           /\ FLt(f.speaking_rate_wpm, FAST_RATE)
                           /\ FLt(LOW_ENERGY, f.avg_energy)
                           /\ FLt(f.avg_energy, HIGH_ENERGY),
                       Weights(0, 0, 0, 1, 1), "mid_rate_mid_energy")
  IN  s10

RECURSIVE MaxKeyLast(_, _, _)
\* mutation: a later key replaces the best one also when its score is equal
MaxKeyLast(scores, k, best) ==
  IF k > Len(Labels) THEN best
  ELSE IF scores[Labels[k]] >= scores[best]
       THEN MaxKeyLast(scores, k + 1, Labels[k])
       ELSE MaxKeyLast(scores, k + 1, best)

RECURSIVE MaxKey(_, _, _)
\* max(scores, key=scores.get) from key k on: a later key replaces the best one
\* only when its score is strictly greater
MaxKey(scores, k, best) ==
  IF k > Len(Labels) THEN best
  ELSE IF scores[Labels[k]] > scores[best]
       THEN MaxKey(scores, k + 1, Labels[k])
       ELSE MaxKey(scores, k + 1, best)

RECURSIVE SumScores(_, _)
SumScores(scores, k) ==
  IF k > Len(Labels) THEN 0 ELSE scores[Labels[k]] + SumScores(scores, k + 1)

\* _infer_emotion(profile); confidence is kept in hundredths
\* (round(max_score / total, 2) * 100)
ConfidenceInverted(scores, dominant) ==
  IF scores[dominant] = 0 THEN 0
  ELSE RoundHalfEven(100 * SumScores(scores, 1), scores[dominant])

\* total = sum(scores.values()) or 1.0; round(max_score / total, 2), kept in
\* hundredths (scores are in half points, so 1.0 is 2).
Confidence(scores, dominant) ==
  LET max_score == scores[dominant]
      total == IF SumScores(scores, 1) # 0 THEN SumScores(scores, 1) ELSE 2
  IN  RoundHalfEven(100 * max_score, total)

infer_emotion(profile) ==
  LET f == EmotionFeatures(profile)
      st == EmotionRules(f)
      dominant == MaxKey(st.scores, 2, Labels[1])
  IN  [dominant_emotion |-> dominant,
       confidence |-> Confidence(st.scores, dominant),
       scores |-> st.scores,
       rules_triggered |-> st.rules_triggered,
       features_used |-> f]

\* np.clip(x, lo, hi)
Clip(x, lo, hi) == IF FLt(x, lo) THEN lo ELSE IF FGt(x, hi) THEN hi ELSE x

FHalf == FRat(1, 2, 0)

\* mutation: the upper clamp is missing
normalize_pitch_unclamped_above(mean_pitch) ==
  IF mean_pitch = None THEN PyFloat(F(1))
  ELSE LET q == PyDiv(mean_pitch[1], PyInt(150))
       IN  [ty |-> "np.float64", v |-> IF FLt(q.v, FHalf) THEN FHalf ELSE q.v]

\* _normalize_pitch_for_synthesis(mean_pitch)
normalize_pitch_for_synthesis(mean_pitch) ==
  IF mean_pitch = None THEN PyFloat(F(1))
  ELSE NpFloat(Clip(PyDiv(mean_pitch[1], PyInt(150)).v, FHalf, F(2)))

\* mutation: the lower clip bound is missing
normalize_speed_unclamped_below(wpm) ==
  IF wpm = None THEN PyFloat(F(1))
  ELSE LET x == PyDiv(wpm[1], PyInt(150)).v
       IN  NpFloat(IF FGt(x, F(2)) THEN F(2) ELSE x)

\* _normalize_speed_for_synthesis(wpm)
normalize_speed_for_synthesis(wpm) ==
  IF wpm = None THEN PyFloat(F(1))
  ELSE NpFloat(Clip(PyDiv(wpm[1], PyInt(150)).v, FHalf, F(2)))

\* the audio files of the environment, after AudioPreprocessor.preprocess:
\* absent (None) when librosa cannot load the file
AudioPaths == {"missing.mp3", "silence.mp3", "user_audio.mp3"}

AudioFile(audio_path) ==
  CASE audio_path = "missing.mp3" -> None
    [] audio_path = "silence.mp3" ->
         Some([len |-> 3 * HopLength,
               energy |-> <<F(-60), F(-60), F(-60), F(-60)>>,
               f0_voiced |-> <<>>])
    [] audio_path = "user_audio.mp3" ->
         Some([len |-> 5 * HopLength + 100,
               energy |-> <<F(-20), F(-60), F(-60), F(-20), F(-5), F(-20)>>,
               f0_voiced |-> <<F(220), F(180), F(200)>>])

\* AudioPreprocessor.preprocess(audio_path): load_audio re-raises a load error
preprocess(audio_path) ==
  IF AudioFile(audio_path) = None THEN Raised("LoadError")
  ELSE Returned(AudioFile(audio_path))

\* the profile that steps 3 and 4 of create_voice_profile build
FilledProfile(user_id, user_name, patterns) ==
  LET profile == [VoiceProfile(user_id, user_name) EXCEPT
                    !.speaking_rate_wpm = Some(patterns.speaking_rate_wpm),
                    !.average_pause_duration = Some(patterns.average_pause_duration),
                    !.mean_pitch = Some(patterns.mean_pitch),
                    !.pitch_range = Some(patterns.pitch_range),
                    !.energy_levels = Some(patterns.energy_levels),
                    !.pitch_contour = Some(patterns.pitch_contour)]
  IN  [profile EXCEPT !.emotion_profile = Some(infer_emotion(profile))]

\* the mapping vp with vp[k] = v
Store(vp, k, v) == [x \in DOMAIN vp \cup {k} |-> IF x = k THEN v ELSE vp[x]]

\* create_voice_profile from the outcome pre of preprocess(audio_path) on
create_voice_profile_from(vp, user_id, user_name, pre, sr) ==
  IF pre.raised THEN {[outcome |-> pre, voice_profiles |-> vp]}
  ELSE {IF o.raised THEN [outcome |-> o, voice_profiles |-> vp]
        ELSE IF o.value = None
        THEN [outcome |-> Returned(None), voice_profiles |-> vp]
        ELSE LET profile == FilledProfile(user_id, user_name, o.value[1])
             IN  [outcome |-> Returned(Some(profile)),
                  voice_profiles |-> Store(vp, user_id, Some(profile))] :
          o \in extract_all_features(pre.value[1], sr)}

\* mutation: missing patterns are raised as an error
create_voice_profile_raising(vp, user_id, user_name, audio_path, sr) ==
  LET pre == preprocess(audio_path)
  IN  IF pre.raised THEN {[outcome |-> pre, voice_profiles |-> vp]}
      ELSE {IF o.raised THEN [outcome |-> o, voice_profiles |-> vp]
            ELSE IF o.value = None
            THEN [outcome |-> Raised("ValueError"), voice_profiles |-> vp]
            ELSE LET profile == FilledProfile(user_id, user_name, o.value[1])
                 IN  [outcome |-> Returned(Some(profile)),
                      voice_profiles |-> Store(vp, user_id, Some(profile))] :
              o \in extract_all_features(pre.value[1], sr)}

\* create_voice_profile(user_id, user_name, audio_path) on the mapping vp: the
\* possible outcomes with the mapping they leave; an exception is logged and
\* raised again
create_voice_profile(vp, user_id, user_name, audio_path, sr) ==
  create_voice_profile_from(vp, user_id, user_name, preprocess(audio_path), sr)

\* get_synthesis_parameters(user_id) on the mapping vp
get_synthesis_parameters(vp, user_id) ==
  IF user_id \notin DOMAIN vp THEN Returned(None)
  ELSE IF vp[user_id] = None THEN Raised("AttributeError")
  ELSE LET profile == vp[user_id][1]
           params ==
             [pitch_adjust |-> normalize_pitch_for_synthesis(profile.mean_pitch),
              speaking_rate_adjust |->
                normalize_speed_for_synthesis(profile.speaking_rate_wpm),
              pause_duration |-> profile.average_pause_duration,
              energy_level |->
                IF profile.energy_levels # None /\ profile.energy_levels[1] # <<>>
                THEN NpFloat(FMean(profile.energy_levels[1]))
                ELSE PyFloat(FHalf)]
       IN  \* the log line formats pause_duration with :.3f
           IF params.pause_duration = None THEN Raised("TypeError")
           ELSE Returned(Some(params))

\* VoiceProfile.to_dict()
to_dict(profile) ==
  [user_id |-> profile.user_id,
   user_name |-> profile.user_name,
   speaking_characteristics |->
     [speaking_rate_wpm |-> profile.speaking_rate_wpm,
      average_pause_duration |-> profile.average_pause_duration,
      mean_pitch |-> profile.mean_pitch,
      pitch_range |-> profile.pitch_range],
   emotion_profile |-> profile.emotion_profile]

\* a number written by json.dump and read by json.load: an int stays an int, a
\* float or numpy float64 is written with repr and read back as the same float
JsonNumber(x) ==
  IF x = None THEN None
  ELSE Some([ty |-> IF x[1].ty = "int" THEN "int" ELSE "float", v |-> x[1].v])

\* a tuple or list becomes a JSON array and is read back as a list
JsonArray(x) ==
  IF x = None THEN None
  ELSE Some(PyList([k \in 1 .. Len(x[1].items) |-> JsonNumber(Some(x[1].items[k]))[1]]))

\* json.load of the text json.dump writes for data
JsonDocument(data) ==
  [data EXCEPT !.speaking_characteristics =
     [speaking_rate_wpm |-> JsonNumber(data.speaking_characteristics.speaking_rate_wpm),
      average_pause_duration |->
        JsonNumber(data.speaking_characteristics.average_pause_duration),
      mean_pitch |-> JsonNumber(data.speaking_characteristics.mean_pitch),
      pitch_range |-> JsonArray(data.speaking_characteristics.pitch_range)]]

\* yaml.dump (the full Dumper) writes a tuple as !!python/tuple and a numpy
\* scalar as !!python/object/apply:numpy..., tags that yaml.safe_load rejects
\* (the features_used of a computed emotion profile are numpy scalars whenever
\* mean_pitch is one)
HasPythonTag(x) == x # None /\ x[1].ty \in {"tuple", "np.float64"}

YamlHasPythonTags(data) ==
  LET sc == data.speaking_characteristics
  IN  \/ HasPythonTag(sc.speaking_rate_wpm)
      \/ HasPythonTag(sc.average_pause_duration)
      \/ HasPythonTag(sc.mean_pitch)
      \/ HasPythonTag(sc.pitch_range)
      \/ sc.pitch_range # None /\
           \E k \in 1 .. Len(sc.pitch_range[1].items) :
             sc.pitch_range[1].items[k].ty = "np.float64"

\* a file path is [stem, ext]; a file is [format, data]
ProfilePath(user_id, ext) == [stem |-> user_id, ext |-> ext]

\* mutation: an unknown format falls back to JSON
save_profile_json_fallback(vp, fs, user_id, format) ==
  IF user_id \notin DOMAIN vp
  THEN [outcome |-> Returned(None), files |-> fs, mkdir |-> FALSE]
  ELSE IF vp[user_id] = None
  THEN [outcome |-> Raised("AttributeError"), files |-> fs, mkdir |-> TRUE]
  ELSE LET filepath == ProfilePath(user_id, IF format = "yaml" THEN "yaml" ELSE "json")
           data == to_dict(vp[user_id][1])
       IN  [outcome |-> Returned(Some(filepath)),
            files |-> Store(fs, filepath,
                        IF format = "yaml"
                        THEN [format |-> "yaml", data |-> Some(data)]
                        ELSE [format |-> "json", data |-> Some(JsonDocument(data))]),
            mkdir |-> TRUE]

\* save_profile(user_id, output_dir, format) on the mapping vp and the files fs
\* of output_dir: the outcome, the files, and whether output_dir was created
save_profile(vp, fs, user_id, format) ==
  IF user_id \notin DOMAIN vp
  THEN [outcome |-> Returned(None), files |-> fs, mkdir |-> FALSE]
  ELSE IF format \notin {"json", "yaml"}
  THEN [outcome |-> Returned(None), files |-> fs, mkdir |-> TRUE]
  ELSE IF vp[user_id] = None
  THEN [outcome |-> Raised("AttributeError"), files |-> fs, mkdir |-> TRUE]
  ELSE LET filepath == ProfilePath(user_id, format)
           data == to_dict(vp[user_id][1])
       IN  [outcome |-> Returned(Some(filepath)),
            files |-> Store(fs, filepath,
                        IF format = "json"
                        THEN [format |-> "json", data |-> Some(JsonDocument(data))]
                        ELSE [format |-> "yaml", data |-> Some(data)]),
            mkdir |-> TRUE]

\* the profile load_profile reconstructs from a parsed record
LoadedProfile(data) ==
  [VoiceProfile(data.user_id, data.user_name) EXCEPT
     !.speaking_rate_wpm = data.speaking_characteristics.speaking_rate_wpm,
     !.average_pause_duration = data.speaking_characteristics.average_pause_duration,
     !.mean_pitch = data.speaking_characteristics.mean_pitch,
     !.pitch_range = data.speaking_characteristics.pitch_range]

\* mutation: the loaded fields are merged into the entry that is already there
load_profile_merging(vp, fs, profile_path) ==
  IF profile_path \notin DOMAIN fs \/ profile_path.ext \notin {"json", "yaml"}
     \/ (profile_path.ext = "yaml" /\ YamlHasPythonTags(fs[profile_path].data[1]))
  THEN [outcome |-> Returned(None), voice_profiles |-> vp]
  ELSE LET data == fs[profile_path].data[1]
           loaded == LoadedProfile(data)
           profile == IF data.user_id \in DOMAIN vp /\ vp[data.user_id] # None
                      THEN [loaded EXCEPT
                              !.energy_levels = vp[data.user_id][1].energy_levels,
                              !.pitch_contour = vp[data.user_id][1].pitch_contour,
                              !.emotion_profile = vp[data.user_id][1].emotion_profile]
                      ELSE loaded
       IN  [outcome |-> Returned(Some(profile)),
            voice_profiles |-> Store(vp, data.user_id, Some(profile))]

\* load_profile(profile_path) on the mapping vp and the files fs; every
\* exception (a missing file, a document yaml.safe_load rejects) is caught and
\* None returned
load_profile(vp, fs, profile_path) ==
  IF profile_path \notin DOMAIN fs
  THEN [outcome |-> Returned(None), voice_profiles |-> vp]
  ELSE IF profile_path.ext \notin {"json", "yaml"}
  THEN [outcome |-> Returned(None), voice_profiles |-> vp]
  ELSE IF profile_path.ext = "yaml" /\ YamlHasPythonTags(fs[profile_path].data[1])
  THEN [outcome |-> Returned(None), voice_profiles |-> vp]
  ELSE LET data == fs[profile_path].data[1]
           profile == LoadedProfile(data)
       IN  [outcome |-> Returned(Some(profile)),
            voice_profiles |-> Store(vp, data.user_id, Some(profile))]

\* ------------------------------------------------------------------------
\* State
\* ------------------------------------------------------------------------
VARIABLES
  voice_profiles,       \* PersonalizationEngine.voice_profiles: user_id -> profile
  files,                \* the files load_profile can open: path -> file
  output_dir_exists,    \* whether save_profile has created its output directory
  saved,                \* path -> the profile save_profile wrote to it last
  call,                 \* the last call made to the engine
  outcome,              \* and its outcome
  energy,               \* extract_pauses: the energy sequence
  threshold_percentile, \* extract_pauses: the percentile
  pause_outcome,        \* extract_pauses: outcome of the call, None before it
  rate_audio_len,       \* calculate_speaking_rate: len(audio)
  rate_pauses,          \* calculate_speaking_rate: pause_durations
  rate_wpm,             \* calculate_speaking_rate: returned value, None before the call
  emotion_input,        \* _infer_emotion: the profile passed in
  emotion_result,       \* _infer_emotion: the returned dict, None before the call
  pitch_inputs,         \* _normalize_pitch_for_synthesis: two mean_pitch arguments
  pitch_results         \* _normalize_pitch_for_synthesis: their results, None before the calls

engineVars == <<voice_profiles, files, output_dir_exists, saved, call, outcome>>
pauseVars == <<energy, threshold_percentile, pause_outcome>>
rateVars == <<rate_audio_len, rate_pauses, rate_wpm>>
emotionVars == <<emotion_input, emotion_result>>
pitchVars == <<pitch_inputs, pitch_results>>
vars == <<engineVars, pauseVars, rateVars, emotionVars, pitchVars>>

UserIds == {"user_001", "user_002"}
UserNames == {"Test User 1"}
Formats == {"json", "yaml", "xml"}
NotesPath == [stem |-> "notes", ext |-> "txt"]
Paths == {ProfilePath(u, x) : u \in UserIds, x \in {"json", "yaml"}}
         \cup {NotesPath}

EmptyMapping == [x \in {} |-> None]

Call(op, user_id, user_name, audio_path, format, path) ==
  [op |-> op, user_id |-> user_id, user_name |-> user_name,
   audio_path |-> audio_path, format |-> format, path |-> path]

NoPath == [stem |-> "", ext |-> ""]

\* PersonalizationEngine.__init__: no profiles; a text file that is not a profile
\* exists beside the engine
EngineInit ==
  /\ voice_profiles = EmptyMapping
  /\ files = Store(EmptyMapping, NotesPath, [format |-> "text", data |-> None])
  /\ output_dir_exists = FALSE
  /\ saved = EmptyMapping
  /\ call = Call("init", "", "", "", "", NoPath)
  /\ outcome = Returned(None)

PauseIdle == energy = <<>> /\ threshold_percentile = 25 /\ pause_outcome = None
RateIdle == rate_audio_len = 0 /\ rate_pauses = <<>> /\ rate_wpm = None
EmotionIdle == emotion_input = None /\ emotion_result = None
PitchIdle == pitch_inputs = <<>> /\ pitch_results = None

\* ------------------------------------------------------------------------
\* Specification of the engine
\* ------------------------------------------------------------------------
Init == EngineInit /\ PauseIdle /\ RateIdle /\ EmotionIdle /\ PitchIdle

CreateVoiceProfile ==
  \E user_id \in UserIds, user_name \in UserNames, audio_path \in AudioPaths :
    \E r \in create_voice_profile(voice_profiles, user_id, user_name, audio_path,
                                  DefaultSr) :
      /\ voice_profiles' = r.voice_profiles
      /\ outcome' = r.outcome
      /\ call' = Call("create_voice_profile", user_id, user_name, audio_path, "", NoPath)
      /\ UNCHANGED <<files, output_dir_exists, saved,
                     pauseVars, rateVars, emotionVars, pitchVars>>

GetSynthesisParameters ==
  \E user_id \in UserIds :
    /\ outcome' = get_synthesis_parameters(voice_profiles, user_id)
    /\ call' = Call("get_synthesis_parameters", user_id, "", "", "", NoPath)
    /\ UNCHANGED <<voice_profiles, files, output_dir_exists, saved,
                   pauseVars, rateVars, emotionVars, pitchVars>>

SaveProfile ==
  \E user_id \in UserIds, format \in Formats :
    LET r == save_profile(voice_profiles, files, user_id, format)
    IN  /\ files' = r.files
        /\ output_dir_exists' = (output_dir_exists \/ r.mkdir)
        /\ saved' = IF r.outcome.value # None
                    THEN Store(saved, r.outcome.value[1], voice_profiles[user_id][1])
                    ELSE saved
        /\ outcome' = r.outcome
        /\ call' = Call("save_profile", user_id, "", "", format, NoPath)
        /\ UNCHANGED <<voice_profiles, pauseVars, rateVars, emotionVars, pitchVars>>

LoadProfile ==
  \E profile_path \in Paths :
    LET r == load_profile(voice_profiles, files, profile_path)
    IN  /\ voice_profiles' = r.voice_profiles
        /\ outcome' = r.outcome
        /\ call' = Call("load_profile", "", "", "", "", profile_path)
        /\ UNCHANGED <<files, output_dir_exists, saved,
                       pauseVars, rateVars, emotionVars, pitchVars>>

Next == CreateVoiceProfile \/ GetSynthesisParameters \/ SaveProfile \/ LoadProfile

Spec == Init /\ [][Next]_vars

\* The engine beside a profile file that was written by hand: a JSON record
\* with the keys load_profile reads, any of the four speaking characteristics
\* null or a number (an array for pitch_range).
HandWrittenPath == ProfilePath("user_001", "json")
HandWrittenRates == {None, Some(PyFloat(F(150))), Some(PyFloat(F(0)))}
HandWrittenPauses == {None, Some(PyInt(0)), Some(PyFloat(FRat(1, 4, 0)))}
HandWrittenPitches == {None, Some(PyFloat(F(180)))}
HandWrittenRanges == {None, Some(PyList(<<PyFloat(F(120)), PyFloat(F(220))>>))}

HandWrittenRecord(wpm, pause, pitch, range) ==
  [user_id |-> "user_001",
   user_name |-> "Test User 1",
   speaking_characteristics |->
     [speaking_rate_wpm |-> wpm, average_pause_duration |-> pause,
      mean_pitch |-> pitch, pitch_range |-> range],
   emotion_profile |-> None]

InitHandWritten ==
  /\ voice_profiles = EmptyMapping
  /\ \E wpm \in HandWrittenRates, pause \in HandWrittenPauses,
        pitch \in HandWrittenPitches, range \in HandWrittenRanges :
       files = Store(EmptyMapping, HandWrittenPath,
                     [format |-> "json",
                      data |-> Some(HandWrittenRecord(wpm, pause, pitch, range))])
  /\ output_dir_exists = TRUE
  /\ saved = EmptyMapping
  /\ call = Call("init", "", "", "", "", NoPath)
  /\ outcome = Returned(None)
  /\ PauseIdle /\ RateIdle /\ EmotionIdle /\ PitchIdle

NextHandWritten == CreateVoiceProfile \/ LoadProfile \/ GetSynthesisParameters

SpecHandWritten == InitHandWritten /\ [][NextHandWritten]_vars

\* ------------------------------------------------------------------------
\* Specification of the pause segmenter on its own
\* ------------------------------------------------------------------------
EnergyValues == {F(-60), F(-20), F(-5)}
Percentiles == {0, 25, 50, 75, 100}

EnergySequences == UNION {[1 .. n -> EnergyValues] : n \in 0 .. MaxFrames}

InitPauses ==
  /\ energy \in EnergySequences
  /\ threshold_percentile \in Percentiles
  /\ pause_outcome = None
  /\ EngineInit /\ RateIdle /\ EmotionIdle /\ PitchIdle

ExtractPauses ==
  /\ pause_outcome = None
  /\ \E o \in extract_pauses_outcomes(energy, threshold_percentile, DefaultSr) :
       pause_outcome' = Some(o)
  /\ UNCHANGED <<energy, threshold_percentile, engineVars, rateVars, emotionVars, pitchVars>>

NextPauses == ExtractPauses

SpecPauses == InitPauses /\ [][NextPauses]_vars

\* The pause segmenter of an extractor built with sr equal to the hop length,
\* so that consecutive frames are one second apart, run on every sequence of
\* the length and the two levels of a six-frame example.
ExampleEnergy == <<F(10), F(10), F(-5), F(-5), F(-5), F(10)>>
ExampleSr == HopLength
ExampleSequences ==
  [1 .. Len(ExampleEnergy) -> {ExampleEnergy[i] : i \in 1 .. Len(ExampleEnergy)}]

InitExample ==
  /\ energy \in ExampleSequences
  /\ threshold_percentile \in Percentiles
  /\ pause_outcome = None
  /\ EngineInit /\ RateIdle /\ EmotionIdle /\ PitchIdle

ExtractPausesExample ==
  /\ pause_outcome = None
  /\ \E o \in extract_pauses_outcomes(energy, threshold_percentile, ExampleSr) :
       pause_outcome' = Some(o)
  /\ UNCHANGED <<energy, threshold_percentile, engineVars, rateVars, emotionVars, pitchVars>>

NextExample == ExtractPausesExample

SpecExample == InitExample /\ [][NextExample]_vars

\* ------------------------------------------------------------------------
\* Specification of the speaking-rate estimator on its own
\* ------------------------------------------------------------------------
\* sample counts: 5 s and 10 s, and one per float between 8 s and 16 s
RateAudioLens ==
  {5 * DefaultSr, 10 * DefaultSr} \cup
  {8 * DefaultSr + (k * DefaultSr) \div Pow2(MantissaBits - 4) :
     k \in 0 .. (Pow2(MantissaBits - 1) - 1)}

RatePauseValues == {NpFloat(F(2)), NpFloat(F(5))}

RatePauseLists ==
  UNION {[1 .. n -> RatePauseValues] : n \in 0 .. MaxPauses}

InitRate ==
  /\ EngineInit /\ PauseIdle /\ EmotionIdle /\ PitchIdle
  /\ rate_audio_len \in RateAudioLens
  /\ rate_pauses \in RatePauseLists
  /\ rate_wpm = None

CalculateSpeakingRate ==
  /\ rate_wpm = None
  /\ rate_wpm' = Some(calculate_speaking_rate(rate_audio_len, DefaultSr, rate_pauses))
  /\ UNCHANGED <<rate_audio_len, rate_pauses, engineVars, pauseVars, emotionVars, pitchVars>>

NextRate == CalculateSpeakingRate

SpecRate == InitRate /\ [][NextRate]_vars

\* ------------------------------------------------------------------------
\* Specification of the emotion classifier on its own
\* ------------------------------------------------------------------------
EmotionPitches == {None} \cup {Some(NpFloat(F(n))) : n \in {129, 130, 131, 199, 200, 201, 220}}
EmotionRanges ==
  {None} \cup {Some(PyTuple(<<NpFloat(F(100)), NpFloat(F(100 + n))>>)) :
                 n \in {39, 40, 41, 79, 80, 81, 90}}
EmotionRates ==
  {None} \cup {Some(PyFloat(F(n))) : n \in {0, 109, 110, 111, 150, 159, 160, 161, 170}}
EmotionEnergies ==
  {None, Some(<<>>)} \cup {Some(<<F(n)>>) : n \in {34, 35, 36, 44, 45, 46, 50}}
                     \cup {Some(<<F(30), F(60)>>)}

InitEmotion ==
  /\ \E mp \in EmotionPitches, pr \in EmotionRanges,
        wpm \in EmotionRates, en \in EmotionEnergies :
       emotion_input = Some([VoiceProfile("user_001", "Test User 1") EXCEPT
                               !.mean_pitch = mp, !.pitch_range = pr,
                               !.speaking_rate_wpm = wpm, !.energy_levels = en])
  /\ emotion_result = None
  /\ EngineInit /\ PauseIdle /\ RateIdle /\ PitchIdle

InferEmotion ==
  /\ emotion_result = None
  /\ emotion_result' = Some(infer_emotion(emotion_input[1]))
  /\ UNCHANGED <<emotion_input, engineVars, pauseVars, rateVars, pitchVars>>

NextEmotion == InferEmotion

SpecEmotion == InitEmotion /\ [][NextEmotion]_vars

\* ------------------------------------------------------------------------
\* Specification of the pitch normalisation on its own
\* ------------------------------------------------------------------------
MeanPitches ==
  {None} \cup {Some(NpFloat(F(n))) :
                 n \in {50, 74, 75, 76, 100, 149, 150, 151, 200, 298, 300, 302, 600}}

InitPitch ==
  /\ pitch_inputs \in MeanPitches \X MeanPitches
  /\ pitch_results = None
  /\ EngineInit /\ PauseIdle /\ RateIdle /\ EmotionIdle

NormalizePitch ==
  /\ pitch_results = None
  /\ pitch_results' = Some(<<normalize_pitch_for_synthesis(pitch_inputs[1]),
                             normalize_pitch_for_synthesis(pitch_inputs[2])>>)
  /\ UNCHANGED <<pitch_inputs, engineVars, pauseVars, rateVars, emotionVars>>

NextPitch == NormalizePitch

SpecPitch == InitPitch /\ [][NextPitch]_vars

\* ------------------------------------------------------------------------
\* main() of main.py and the __main__ block around it. call.op is the step
\* that ran last and outcome what it left; the local variable profile is
\* voice_profiles["user1"] from line 56 on. user_audio.mp3 cannot be loaded,
\* or holds three frames of audio with or without voiced frames.
MainUserId == "user1"
MainUserName == "User 1"
MainF0 == {<<>>, <<F(120)>>, <<F(220), F(180)>>}
MainAudio ==
  {Raised("LoadError")} \cup
  {Returned(Some([len |-> 2 * HopLength + 50, energy |-> en, f0_voiced |-> f0])) :
     en \in [1 .. 3 -> EnergyValues], f0 \in MainF0}

PyBool(b) == [ty |-> "bool", v |-> b]
MainCall(op) == Call(op, MainUserId, "", "", "", NoPath)
MainRunning(op) == call.op = op /\ ~outcome.raised

InitMain == EngineInit /\ PauseIdle /\ RateIdle /\ EmotionIdle /\ PitchIdle

\* lines 50-56: create_voice_profile outside any try; the result is stored
\* under "user1" whatever it is
MainCreateProfile ==
  /\ call.op = "init"
  /\ \E pre \in MainAudio :
       \E r \in create_voice_profile_from(voice_profiles, MainUserId, MainUserName,
                                          pre, DefaultSr) :
         /\ voice_profiles' = IF r.outcome.raised THEN r.voice_profiles
                              ELSE Store(r.voice_profiles, MainUserId, r.outcome.value)
         /\ outcome' = r.outcome
  /\ call' = MainCall("main.create_voice_profile")
  /\ UNCHANGED <<files, output_dir_exists, saved,
                 pauseVars, rateVars, emotionVars, pitchVars>>

\* lines 58-79: the fields of profile are printed
MainPrintProfile ==
  /\ MainRunning("main.create_voice_profile")
  /\ outcome' = IF voice_profiles[MainUserId] = None THEN Raised("AttributeError")
                ELSE Returned(voice_profiles[MainUserId])
  /\ call' = MainCall("main.print_profile")
  /\ UNCHANGED <<voice_profiles, files, output_dir_exists, saved,
                 pauseVars, rateVars, emotionVars, pitchVars>>

\* lines 83-104: without parameters main returns False
MainGetParameters ==
  /\ MainRunning("main.print_profile")
  /\ LET params == get_synthesis_parameters(voice_profiles, MainUserId)
     IN  IF ~params.raised /\ params.value = None
         THEN /\ outcome' = Returned(Some(PyBool(FALSE)))
              /\ call' = MainCall("main.return")
         ELSE /\ outcome' = params
              /\ call' = MainCall("main.get_synthesis_parameters")
  /\ UNCHANGED <<voice_profiles, files, output_dir_exists, saved,
                 pauseVars, rateVars, emotionVars, pitchVars>>

\* lines 108-127: the profile is saved as JSON; an exception is printed and
\* main returns False
MainSaveProfile ==
  /\ MainRunning("main.get_synthesis_parameters")
  /\ LET r == save_profile(voice_profiles, files, MainUserId, "json")
     IN  /\ files' = r.files
         /\ output_dir_exists' = TRUE
         /\ saved' = IF ~r.outcome.raised /\ r.outcome.value # None
                     THEN Store(saved, r.outcome.value[1], voice_profiles[MainUserId][1])
                     ELSE saved
         /\ IF r.outcome.raised \/ r.outcome.value = None
            THEN /\ outcome' = Returned(Some(PyBool(FALSE)))
                 /\ call' = MainCall("main.return")
            ELSE /\ outcome' = r.outcome
                 /\ call' = MainCall("main.save_profile")
  /\ UNCHANGED <<voice_profiles, pauseVars, rateVars, emotionVars, pitchVars>>

\* lines 131-153: the mapping is cleared and the saved file loaded; main
\* returns True when a profile came back
MainLoadProfile ==
  /\ MainRunning("main.save_profile")
  /\ LET r == load_profile(EmptyMapping, files, outcome.value[1])
     IN  /\ voice_profiles' = r.voice_profiles
         /\ outcome' = Returned(Some(PyBool(r.outcome.value # None)))
  /\ call' = MainCall("main.return")
  /\ UNCHANGED <<files, output_dir_exists, saved,
                 pauseVars, rateVars, emotionVars, pitchVars>>

\* lines 155-172: the exit status and what is printed with it; an exception
\* that left main() is logged as an unexpected error
MainExit ==
  /\ call.op \in {"main.create_voice_profile", "main.print_profile",
                  "main.get_synthesis_parameters", "main.return"}
  /\ outcome.raised \/ call.op = "main.return"
  /\ outcome' =
       Returned(Some(
         IF outcome.raised
         THEN [ty |-> "exit", code |-> 1, report |-> "Unexpected error",
               exc |-> outcome.exc]
         ELSE IF outcome.value[1].v
         THEN [ty |-> "exit", code |-> 0, report |-> "EXECUTION COMPLETE", exc |-> ""]
         ELSE [ty |-> "exit", code |-> 1, report |-> "EXECUTION FAILED", exc |-> ""]))
  /\ call' = MainCall("exit")
  /\ UNCHANGED <<voice_profiles, files, output_dir_exists, saved,
                 pauseVars, rateVars, emotionVars, pitchVars>>

NextMain ==
  \/ MainCreateProfile \/ MainPrintProfile \/ MainGetParameters
  \/ MainSaveProfile \/ MainLoadProfile \/ MainExit

SpecMain == InitMain /\ [][NextMain]_vars

\* ------------------------------------------------------------------------
\* Profiles made by create_voice_profile from audio of several lengths, and
\* the synthesis parameters read from them. An audio of len samples has
\* 1 + len // hop_length energy frames.
ProfileLens == {HopLength} \cup {2 * HopLength + 25 * k : k \in 0 .. 8}
ProfileF0 == {<<>>, <<F(120)>>, <<F(220), F(180)>>}
ProfileAudio ==
  {Returned(Some([len |-> n, energy |-> en, f0_voiced |-> f0])) :
     n \in ProfileLens, en \in EnergySequences, f0 \in ProfileF0}

InitProfiles == EngineInit /\ PauseIdle /\ RateIdle /\ EmotionIdle /\ PitchIdle

CreateFromAudio ==
  /\ voice_profiles = EmptyMapping
  /\ \E pre \in ProfileAudio :
       /\ Len(pre.value[1].energy) = 1 + pre.value[1].len \div HopLength
       /\ \E r \in create_voice_profile_from(voice_profiles, "user_001", "Test User 1",
                                              pre, DefaultSr) :
            /\ voice_profiles' = r.voice_profiles
            /\ outcome' = r.outcome
  /\ call' = Call("create_voice_profile", "user_001", "Test User 1", "", "", NoPath)
  /\ UNCHANGED <<files, output_dir_exists, saved,
                 pauseVars, rateVars, emotionVars, pitchVars>>

NextProfiles == CreateFromAudio \/ GetSynthesisParameters

SpecProfiles == InitProfiles /\ [][NextProfiles]_vars

\* ------------------------------------------------------------------------
\* C1
\* ------------------------------------------------------------------------
\* a frame is paused iff its energy is strictly below the percentile threshold
ClaimedPaused(k) == FLt(energy[k], Percentile(energy, threshold_percentile))

\* <<s, e>>: frames s .. e-1 are a maximal run of paused frames and frame e is
\* the non-paused frame that follows it (1-based positions)
ClosedRuns ==
  {r \in (1 .. Len(energy)) \X (1 .. Len(energy)) :
     /\ r[1] < r[2]
     /\ \A k \in r[1] .. (r[2] - 1) : ClaimedPaused(k)
     /\ ~ClaimedPaused(r[2])
     /\ r[1] = 1 \/ ~ClaimedPaused(r[1] - 1)}

RECURSIVE RunsInOrder(_)
RunsInOrder(rs) ==
  IF rs = {} THEN <<>>
  ELSE LET first == CHOOSE r \in rs : \A q \in rs : r[1] <= q[1]
       IN  <<first>> \o RunsInOrder(rs \ {first})

ExpectedPauses ==
  LET runs == RunsInOrder(ClosedRuns)
  IN  [k \in 1 .. Len(runs) |->
        [pause_start |-> frames_to_time(runs[k][1] - 1, DefaultSr),
         pause_end |-> frames_to_time(runs[k][2] - 1, DefaultSr),
         duration |-> PySub(frames_to_time(runs[k][2] - 1, DefaultSr),
                            frames_to_time(runs[k][1] - 1, DefaultSr))]]

\* a run of paused frames reaches the last frame
TrailingOpenPause == energy # <<>> /\ ClaimedPaused(Len(energy))

\* C1: extract_pauses records exactly the maximal runs of paused frames that are
\* followed by a non-paused frame, each from the time of its first paused frame
\* to the time of the first non-paused frame after it, in time order (the
\* returned list holds their durations); no pause has start > end, and a run
\* still open at the last frame is not recorded.
C1_Theorem ==
  (pause_outcome # None /\ ~pause_outcome[1].raised) =>
    LET durations == pause_outcome[1].value[1]
    IN  /\ Len(durations) = Len(ExpectedPauses)
        /\ \A k \in 1 .. Len(durations) :
             /\ durations[k] = ExpectedPauses[k].duration
             /\ FGe(durations[k].v, FZero)
        /\ energy # <<>> =>
             /\ FoundPauses(energy, threshold_percentile, DefaultSr) = ExpectedPauses
             /\ \A k \in 1 .. Len(ExpectedPauses) :
                  FLe(ExpectedPauses[k].pause_start.v, ExpectedPauses[k].pause_end.v)
        /\ Len(durations) = Cardinality(ClosedRuns)

\* a closed pause of two frames is reported and the trailing open one is not
C1_Witness ==
  /\ pause_outcome # None
  /\ ~pause_outcome[1].raised
  /\ TrailingOpenPause
  /\ Len(pause_outcome[1].value[1]) = 1
  /\ \E r \in ClosedRuns : r[2] - r[1] = 2

\* ------------------------------------------------------------------------
\* C3
\* ------------------------------------------------------------------------
\* the rule table: identifiers in table order
TableRules ==
  <<"high_mean_pitch", "large_pitch_range", "fast_speaking_rate", "high_energy",
    "low_mean_pitch", "small_pitch_range", "slow_speaking_rate", "low_energy",
    "mid_pitch_mid_range", "mid_rate_mid_energy">>

\* the weights of the k-th row in half points: <<happy, angry, sad, calm, neutral>>
TableWeights ==
  << <<2, 1, 0, 0, 0>>, <<2, 2, 0, 0, 0>>, <<1, 1, 0, 0, 0>>, <<1, 2, 0, 0, 0>>,
     <<0, 0, 2, 0, 0>>, <<0, 0, 1, 1, 0>>, <<0, 0, 1, 1, 0>>, <<0, 0, 1, 1, 0>>,
     <<0, 0, 0, 0, 1>>, <<0, 0, 0, 1, 1>> >>

TableColumn(l) == CASE l = "happy" -> 1 [] l = "angry" -> 2 [] l = "sad" -> 3
                    [] l = "calm" -> 4 [] l = "neutral" -> 5

\* the condition of the k-th row on the features f
TableCondition(k, f) ==
  CASE k = 1 -> FGt(f.mean_pitch, F(200))
    [] k = 2 -> FGt(f.pitch_range, F(80))
    [] k = 3 -> FGt(f.speaking_rate_wpm, F(160))
    [] k = 4 -> FGt(f.avg_energy, F(45))
    [] k = 5 -> FLt(f.mean_pitch, F(130))
    [] k = 6 -> FLt(f.pitch_range, F(40))
    [] k = 7 -> FLt(f.speaking_rate_wpm, F(110))
    [] k = 8 -> FLt(f.avg_energy, F(35))
    [] k = 9 -> /\ FGe(f.mean_pitch, F(130)) /\ FLe(f.mean_pitch, F(200))
                /\ FGe(f.pitch_range, F(40)) /\ FLe(f.pitch_range, F(80))
    [] k = 10 -> /\ FGt(f.speaking_rate_wpm, F(110)) /\ FLt(f.speaking_rate_wpm, F(160))
                 /\ FGt(f.avg_energy, F(35)) /\ FLt(f.avg_energy, F(45))

RECURSIVE TableScore(_, _, _)
\* sum of the weights for label l of the rows k .. 10 that hold
TableScore(l, f, k) ==
  IF k > Len(TableRules) THEN 0
  ELSE (IF TableCondition(k, f) THEN TableWeights[k][TableColumn(l)] ELSE 0)
       + TableScore(l, f, k + 1)

RECURSIVE TableTriggered(_, _)
TableTriggered(f, k) ==
  IF k > Len(TableRules) THEN <<>>
  ELSE (IF TableCondition(k, f) THEN <<TableRules[k]>> ELSE <<>>)
       \o TableTriggered(f, k + 1)

\* C3: the scores are the sums of the table weights of the rules that hold, each
\* rule evaluated on its own (strict comparisons for the eight high/low rules,
\* inclusive bounds for mid-pitch/mid-range, strict bounds for mid-rate/
\* mid-energy), and rules_triggered lists exactly the rules that hold, in table
\* order.
C3_Theorem ==
  emotion_result # None =>
    LET r == emotion_result[1]
    IN  /\ \A l \in LabelSet : r.scores[l] = TableScore(l, r.features_used, 1)
        /\ r.rules_triggered = TableTriggered(r.features_used, 1)

\* mean pitch and pitch range exactly on their upper thresholds, rate and energy
\* in the middle: only the two mid rules hold
C3_Witness ==
  /\ emotion_result # None
  /\ emotion_result[1].features_used.mean_pitch = F(200)
  /\ emotion_result[1].features_used.pitch_range = F(80)
  /\ emotion_result[1].features_used.speaking_rate_wpm = F(150)
  /\ emotion_result[1].features_used.avg_energy = F(36)
  /\ emotion_result[1].rules_triggered = <<"mid_pitch_mid_range", "mid_rate_mid_energy">>
  /\ emotion_result[1].scores["neutral"] = 2
  /\ emotion_result[1].scores["calm"] = 1

\* ------------------------------------------------------------------------
\* C4
\* ------------------------------------------------------------------------
TieBreakOrder == <<"happy", "sad", "angry", "calm", "neutral">>
TieBreakRank(l) == CHOOSE k \in 1 .. Len(TieBreakOrder) : TieBreakOrder[k] = l

AllHappyAngryFeatures ==
  [mean_pitch |-> F(220), pitch_range |-> F(90),
   speaking_rate_wpm |-> F(170), avg_energy |-> F(50)]

\* C4: dominant_emotion has the maximum score and is, among the labels with the
\* maximum score, the first in the order happy, sad, angry, calm, neutral; for
\* mean_pitch 220, pitch_range 90, speaking_rate 170, avg_energy 50 happy and
\* angry tie at 3 and the label is happy.
C4_Theorem ==
  emotion_result # None =>
    LET r == emotion_result[1]
        d == r.dominant_emotion
    IN  /\ \A l \in LabelSet : r.scores[l] <= r.scores[d]
        /\ \A l \in LabelSet :
             r.scores[l] = r.scores[d] => TieBreakRank(d) <= TieBreakRank(l)
        /\ r.features_used = AllHappyAngryFeatures =>
             /\ r.scores["happy"] = 6 /\ r.scores["angry"] = 6
             /\ d = "happy"

C4_Witness ==
  /\ emotion_result # None
  /\ emotion_result[1].features_used = AllHappyAngryFeatures
  /\ emotion_result[1].scores["happy"] = emotion_result[1].scores["angry"]
  /\ emotion_result[1].dominant_emotion = "happy"

\* ------------------------------------------------------------------------
\* C5
\* ------------------------------------------------------------------------
F150 == F(150)
\* one unit in the last place of 150
Ulp150 == [m |-> Pow2(MantissaBits - 1), e |-> F150.e - (MantissaBits - 1)]
FAbs(a) == [m |-> Abs(a.m), e |-> a.e]

RateSpeakingTime == SpeakingTime(rate_audio_len, DefaultSr, rate_pauses).v

\* C5 as stated: the estimator returns exactly 150 WPM whenever speaking_time > 0
\* and 0 whenever speaking_time <= 0.
C5_Original ==
  rate_wpm # None =>
    /\ FGt(RateSpeakingTime, FZero) => rate_wpm[1].v = F150
    /\ FLe(RateSpeakingTime, FZero) => rate_wpm[1].v = FZero

\* C5 amended: whenever speaking_time > 0 the estimator returns 150 WPM up to
\* floating-point rounding (150 or a float one unit in the last place away),
\* exactly 150 for duration 10 with pauses [2]; it returns 0 whenever
\* speaking_time <= 0 (for example duration 5, pauses [5,5]).
C5_Theorem ==
  rate_wpm # None =>
    /\ FGt(RateSpeakingTime, FZero) =>
         FLe(FAbs(FSub(rate_wpm[1].v, F150)), Ulp150)
    /\ (rate_audio_len = 10 * DefaultSr /\ rate_pauses = <<NpFloat(F(2))>>) =>
         rate_wpm[1].v = F150
    /\ FLe(RateSpeakingTime, FZero) => rate_wpm[1] = PyInt(0)

\* speaking_time > 0 and the returned rate is one unit in the last place off 150
C5_Witness ==
  /\ rate_wpm # None
  /\ FGt(RateSpeakingTime, FZero)
  /\ rate_wpm[1].v # F150
  /\ FAbs(FSub(rate_wpm[1].v, F150)) = Ulp150
\* ------------------------------------------------------------------------
\* C8
\* ------------------------------------------------------------------------
\* clamp(mean_pitch / 150, 0.5, 2.0) stated on mean_pitch: 0.5 up to 75 Hz,
\* 2.0 from 300 Hz on, the quotient in between
ClampedPitch(mean_pitch) ==
  IF FLe(mean_pitch, F(75)) THEN FRat(1, 2, 0)
  ELSE IF FGe(mean_pitch, F(300)) THEN F(2)
  ELSE FDiv(mean_pitch, F(150))

\* C8: pitch_adjust is clamp(mean_pitch / 150, 0.5, 2.0) for a present
\* mean_pitch: within [0.5, 2.0], non-decreasing in mean_pitch, 0.5 at 75,
\* 1.0 at 150, 2.0 at 600; it is 1.0 when mean_pitch is absent.
C8_Theorem ==
  pitch_results # None =>
    /\ \A k \in 1 .. 2 :
         LET mp == pitch_inputs[k]
             adj == pitch_results[1][k].v
         IN  /\ mp = None => adj = F(1)
             /\ mp # None =>
                  /\ adj = ClampedPitch(mp[1].v)
                  /\ FLe(FRat(1, 2, 0), adj) /\ FLe(adj, F(2))
                  /\ mp[1].v = F(75) => adj = FRat(1, 2, 0)
                  /\ mp[1].v = F(150) => adj = F(1)
                  /\ mp[1].v = F(600) => adj = F(2)
    /\ (pitch_inputs[1] # None /\ pitch_inputs[2] # None
        /\ FLe(pitch_inputs[1][1].v, pitch_inputs[2][1].v)) =>
         FLe(pitch_results[1][1].v, pitch_results[1][2].v)

\* 150 Hz maps to 1.0 and 600 Hz is clamped to 2.0
C8_Witness ==
  /\ pitch_results # None
  /\ pitch_inputs[1] = Some(NpFloat(F(150)))
  /\ pitch_inputs[2] = Some(NpFloat(F(600)))
  /\ pitch_results[1][1].v = F(1)
  /\ pitch_results[1][2].v = F(2)
\* ------------------------------------------------------------------------
\* C2
\* ------------------------------------------------------------------------
CallIs(op) == call.op = op

\* the audio a create_voice_profile call was given has no voiced frame
NoVoicedFrames(audio_path) ==
  AudioFile(audio_path) # None /\ AudioFile(audio_path)[1].f0_voiced = <<>>

CannotLoad(audio_path) == AudioFile(audio_path) = None

\* after create_voice_profile: a returned profile is the entry of user_id, its
\* pitch statistics are those of a non-empty set of voiced frames and its
\* emotion profile is computed; without audio or voiced frames there is none
C2_AfterCreate ==
  CallIs("create_voice_profile") =>
    /\ (CannotLoad(call.audio_path) \/ NoVoicedFrames(call.audio_path)) =>
         outcome.value = None
    /\ outcome.value # None =>
         LET profile == outcome.value[1]
             voiced == AudioFile(call.audio_path)[1].f0_voiced
         IN  /\ Len(voiced) >= 1
             /\ call.user_id \in DOMAIN voice_profiles
             /\ voice_profiles[call.user_id] = Some(profile)
             /\ profile.user_id = call.user_id
             /\ profile.pitch_contour = Some(voiced)
             /\ profile.mean_pitch = Some(NpFloat(FMean(voiced)))
             /\ profile.pitch_range =
                  Some(PyTuple(<<NpFloat(FMin(voiced)), NpFloat(FMax(voiced))>>))
             /\ profile.emotion_profile # None
             /\ profile.emotion_profile[1].dominant_emotion \in LabelSet

\* no entry of the mapping has an empty pitch contour
C2_NoUnvoicedProfile ==
  \A u \in DOMAIN voice_profiles :
    (voice_profiles[u] # None /\ voice_profiles[u][1].pitch_contour # None) =>
      Len(voice_profiles[u][1].pitch_contour[1]) >= 1

\* a create_voice_profile call that yields no profile leaves the mapping as it was
C2_FailedCreateStep ==
  (call'.op = "create_voice_profile" /\ outcome'.value = None) =>
    voice_profiles' = voice_profiles

\* C2: create_voice_profile never stores a profile built from zero voiced
\* frames: on success the profile it returns is stored under user_id, has pitch
\* statistics from at least one voiced frame and a computed emotion profile;
\* when the audio cannot be loaded or has no voiced frames no profile is built
\* and the mapping is unchanged.
C2_Theorem ==
  /\ [](C2_AfterCreate /\ C2_NoUnvoicedProfile)
  /\ [][C2_FailedCreateStep]_vars

\* a create call on silent audio for a user who already has a profile
C2_Witness ==
  /\ CallIs("create_voice_profile")
  /\ NoVoicedFrames(call.audio_path)
  /\ outcome.value = None
  /\ call.user_id \in DOMAIN voice_profiles
  /\ voice_profiles[call.user_id] # None
  /\ voice_profiles[call.user_id][1].pitch_contour # None

\* ------------------------------------------------------------------------
\* C6
\* ------------------------------------------------------------------------
\* two optional numbers with the same value
SameNumber(x, y) == (x = None /\ y = None) \/ (x # None /\ y # None /\ x[1].v = y[1].v)

\* two optional pairs with the same values
SameRange(x, y) ==
  \/ x = None /\ y = None
  \/ /\ x # None /\ y # None
     /\ Len(x[1].items) = Len(y[1].items)
     /\ \A k \in 1 .. Len(x[1].items) : x[1].items[k].v = y[1].items[k].v

\* C6: loading a file that save_profile wrote, in either format, yields a
\* profile stored under the same user_id with user_id, user_name,
\* speaking_rate_wpm, average_pause_duration, mean_pitch and pitch_range equal
\* to those of the profile that was saved.
C6_RoundTrip ==
  (CallIs("load_profile") /\ call.path \in DOMAIN saved) =>
    /\ outcome.value # None
    /\ LET original == saved[call.path]
           loaded == outcome.value[1]
       IN  /\ original.user_id \in DOMAIN voice_profiles
           /\ voice_profiles[original.user_id] = Some(loaded)
           /\ loaded.user_id = original.user_id
           /\ loaded.user_name = original.user_name
           /\ SameNumber(loaded.speaking_rate_wpm, original.speaking_rate_wpm)
           /\ SameNumber(loaded.average_pause_duration, original.average_pause_duration)
           /\ SameNumber(loaded.mean_pitch, original.mean_pitch)
           /\ SameRange(loaded.pitch_range, original.pitch_range)

\* ------------------------------------------------------------------------
\* C7
\* ------------------------------------------------------------------------
\* C7: after a successful load the entry of the record's user_id is a new
\* profile with only identity and the four speaking characteristics set:
\* energy_levels and pitch_contour are absent and emotion_profile is empty;
\* get_synthesis_parameters on such an entry returns the default energy_level
\* 0.5, where it returns the mean energy for a created profile.
C7_Theorem ==
  /\ (CallIs("load_profile") /\ outcome.value # None) =>
       LET data == files[call.path].data[1]
           loaded == outcome.value[1]
       IN  /\ data.user_id \in DOMAIN voice_profiles
           /\ voice_profiles[data.user_id] = Some(loaded)
           /\ loaded.user_id = data.user_id
           /\ loaded.user_name = data.user_name
           /\ loaded.speaking_rate_wpm = data.speaking_characteristics.speaking_rate_wpm
           /\ loaded.average_pause_duration =
                data.speaking_characteristics.average_pause_duration
           /\ loaded.mean_pitch = data.speaking_characteristics.mean_pitch
           /\ loaded.pitch_range = data.speaking_characteristics.pitch_range
           /\ loaded.energy_levels = None
           /\ loaded.pitch_contour = None
           /\ loaded.emotion_profile = None
  /\ (CallIs("get_synthesis_parameters") /\ outcome.value # None) =>
       LET profile == voice_profiles[call.user_id][1]
           level == outcome.value[1].energy_level
       IN  /\ profile.energy_levels = None => level = PyFloat(FRat(1, 2, 0))
           /\ profile.energy_levels # None =>
                /\ level.v = FMean(profile.energy_levels[1])
                /\ level.v # FRat(1, 2, 0)

\* parameters asked for a profile that was created, saved and loaded: the saved
\* profile had energy levels and an emotion profile, the entry has none
C7_Witness ==
  /\ CallIs("get_synthesis_parameters")
  /\ outcome.value # None
  /\ outcome.value[1].energy_level = PyFloat(FRat(1, 2, 0))
  /\ ProfilePath(call.user_id, "json") \in DOMAIN saved
  /\ saved[ProfilePath(call.user_id, "json")].energy_levels # None
  /\ saved[ProfilePath(call.user_id, "json")].emotion_profile # None
  /\ voice_profiles[call.user_id][1].energy_levels = None
  /\ voice_profiles[call.user_id][1].emotion_profile = None

\* ------------------------------------------------------------------------
\* C9
\* ------------------------------------------------------------------------
\* the step is a call with a recoverable error: an unknown user_id, an unknown
\* format, or a path that ends in neither .json nor .yaml
RecoverableErrorStep ==
  \/ /\ call'.op = "get_synthesis_parameters"
     /\ call'.user_id \notin DOMAIN voice_profiles
  \/ /\ call'.op = "save_profile"
     /\ \/ call'.user_id \notin DOMAIN voice_profiles
        \/ call'.format \notin {"json", "yaml"}
  \/ /\ call'.op = "load_profile"
     /\ call'.path.ext \notin {"json", "yaml"}

\* C9: a call with a recoverable error returns None without raising, writes no
\* profile file and leaves the profile mapping unchanged.
C9_Theorem ==
  [][RecoverableErrorStep =>
       /\ outcome' = Returned(None)
       /\ files' = files
       /\ voice_profiles' = voice_profiles]_vars

\* save_profile with an unknown format for a user who has a profile
C9_Witness ==
  /\ CallIs("save_profile")
  /\ call.format = "xml"
  /\ call.user_id \in DOMAIN voice_profiles
  /\ outcome = Returned(None)
  /\ ProfilePath(call.user_id, "json") \notin DOMAIN files

\* ------------------------------------------------------------------------
\* C10
\* ------------------------------------------------------------------------
\* C10 as stated: create_voice_profile raises an error both when the audio
\* cannot be loaded and when there are no voiced frames.
C10_Original ==
  (CallIs("create_voice_profile")
   /\ (CannotLoad(call.audio_path) \/ NoVoicedFrames(call.audio_path))) =>
    outcome.raised

\* C10 amended: create_voice_profile raises the load error when the audio cannot
\* be loaded; when there are no voiced frames it raises nothing and returns None.
C10_Theorem ==
  CallIs("create_voice_profile") =>
    /\ CannotLoad(call.audio_path) => (outcome.raised /\ outcome.exc = "LoadError")
    /\ NoVoicedFrames(call.audio_path) => outcome = Returned(None)

C10_Witness ==
  /\ CallIs("create_voice_profile")
  /\ NoVoicedFrames(call.audio_path)
  /\ ~outcome.raised
  /\ outcome.value = None

\* ---------------------------------------------------------------------------
\* C11: the confidence reported by the emotion classifier is within [0, 1]
\* (0..100 hundredths) for every combination of input features, and the
\* confidence computation yields exactly 0 when all five scores are zero,
\* the total then being taken as 1.0 instead of dividing by zero.
ZeroScores == Weights(0, 0, 0, 0, 0)

C11_Theorem ==
  /\ Confidence(ZeroScores, MaxKey(ZeroScores, 2, Labels[1])) = 0
  /\ emotion_result # None =>
        /\ emotion_result[1].confidence \in 0..100
        /\ SumScores(emotion_result[1].scores, 1) = 0
             => emotion_result[1].confidence = 0

\* A classification whose dominant label holds the whole total: confidence 1.
C11_Witness ==
  /\ emotion_result # None
  /\ emotion_result[1].confidence = 100
  /\ SumScores(emotion_result[1].scores, 1) > 0

\* ---------------------------------------------------------------------------
\* C12: for the energy sequence [10,10,-5,-5,-5,10] with frames one second
\* apart and the default percentile 25, the 25th percentile is exactly -5, no
\* frame is strictly below it and the pause segmenter reports no pause; with
\* percentile 50 it reports exactly one pause, from 2 s to 5 s.
ExampleRun(q) ==
  /\ energy = ExampleEnergy
  /\ threshold_percentile = q
  /\ pause_outcome # None

Interval(start, end) ==
  [pause_start |-> NpFloat(F(start)), pause_end |-> NpFloat(F(end)),
   duration |-> NpFloat(F(end - start))]

\* the statement as claimed: one pause, the interval [2,4)
C12_Original ==
  ExampleRun(DefaultPercentile) =>
    /\ FoundPauses(energy, threshold_percentile, ExampleSr) = <<Interval(2, 4)>>
    /\ pause_outcome[1] = Returned(Some(<<NpFloat(F(2))>>))

C12_Theorem ==
  /\ ExampleRun(DefaultPercentile) =>
       /\ Percentile(energy, threshold_percentile) = F(-5)
       /\ FoundPauses(energy, threshold_percentile, ExampleSr) = <<>>
       /\ pause_outcome[1] = Returned(Some(<<>>))
  /\ ExampleRun(50) =>
       /\ FoundPauses(energy, threshold_percentile, ExampleSr) = <<Interval(2, 5)>>
       /\ pause_outcome[1] = Returned(Some(<<NpFloat(F(3))>>))

C12_Witness == ExampleRun(DefaultPercentile)

\* ---------------------------------------------------------------------------
\* C13: get_synthesis_parameters never raises for a profile present in the
\* mapping, put there by create_voice_profile or by load_profile: pitch_adjust
\* is 1.0 when mean_pitch is absent, speaking_rate_adjust is 1.0 when
\* speaking_rate_wpm is absent, energy_level is 0.5 when energy_levels is
\* absent or empty, and pause_duration is average_pause_duration unchanged.
C13_NeverRaises ==
  (CallIs("get_synthesis_parameters") /\ call.user_id \in DOMAIN voice_profiles) =>
    LET profile == voice_profiles[call.user_id][1]
    IN  /\ ~outcome.raised
        /\ outcome.value # None
        /\ LET params == outcome.value[1]
           IN  /\ profile.mean_pitch = None => params.pitch_adjust = PyFloat(F(1))
               /\ profile.speaking_rate_wpm = None
                    => params.speaking_rate_adjust = PyFloat(F(1))
               /\ (profile.energy_levels = None \/ profile.energy_levels = Some(<<>>))
                    => params.energy_level = PyFloat(FHalf)
               /\ params.pause_duration = profile.average_pause_duration

\* ---------------------------------------------------------------------------
\* C14: given an empty energy sequence, the pause segmenter returns an empty
\* pause list and does not fail with an error.
C14_EmptyEnergy ==
  (energy = <<>> /\ pause_outcome # None) =>
    pause_outcome[1] = Returned(Some(<<>>))

\* ---------------------------------------------------------------------------
\* C15: in the main workflow, when create_voice_profile yields no profile (no
\* voiced frames), no entry is written into the profile mapping for that
\* user, no field of the absent profile is read, and the run ends in a
\* reported failure rather than a fault that leaves main().
C15_AbsenceChecked ==
  /\ (call.op = "main.create_voice_profile" /\ outcome = Returned(None))
       => MainUserId \notin DOMAIN voice_profiles
  /\ call.op = "main.print_profile" => ~outcome.raised
  /\ (call.op = "exit" /\ outcome.value[1].report = "Unexpected error")
       => outcome.value[1].exc # "AttributeError"

\* ---------------------------------------------------------------------------
\* C16: for every combination of input features at least one emotion rule
\* fires: mean_pitch above 200 fires high_mean_pitch, below 130 low_mean_pitch,
\* and for a mean_pitch in [130,200] pitch_range above 80 fires
\* large_pitch_range, below 40 small_pitch_range and in [40,80]
\* mid_pitch_mid_range. So rules_triggered is never empty, the sum of the
\* scores is positive (the all-zero branch of the confidence computation is
\* not taken) and the confidence before rounding, max_score / total, is at
\* least 1/5.
Triggered(result, rule) ==
  \E k \in 1 .. Len(result.rules_triggered) : result.rules_triggered[k] = rule

C16_Theorem ==
  emotion_result # None =>
    LET r == emotion_result[1]
        f == r.features_used
        total == SumScores(r.scores, 1)
    IN  /\ FGt(f.mean_pitch, F(200)) => Triggered(r, "high_mean_pitch")
        /\ FLt(f.mean_pitch, F(130)) => Triggered(r, "low_mean_pitch")
        /\ (FGe(f.mean_pitch, F(130)) /\ FLe(f.mean_pitch, F(200))) =>
             /\ FGt(f.pitch_range, F(80)) => Triggered(r, "large_pitch_range")
             /\ FLt(f.pitch_range, F(40)) => Triggered(r, "small_pitch_range")
             /\ (FGe(f.pitch_range, F(40)) /\ FLe(f.pitch_range, F(80)))
                  => Triggered(r, "mid_pitch_mid_range")
        /\ r.rules_triggered # <<>>
        /\ total > 0
        /\ 5 * r.scores[r.dominant_emotion] >= total

\* Only the middle-band rule fires: every feature sits on a threshold that the
\* other nine rules exclude.
C16_Witness ==
  /\ emotion_result # None
  /\ emotion_result[1].rules_triggered = <<"mid_pitch_mid_range">>
  /\ emotion_result[1].features_used.speaking_rate_wpm = F(160)

\* ---------------------------------------------------------------------------
\* C17 as stated: every profile produced by create_voice_profile has
\* speaking_rate_wpm equal to 0 or 150, so in its emotion profile the
\* fast_speaking_rate rule is never triggered, the slow_speaking_rate rule is
\* triggered only when the rate is 0, and get_synthesis_parameters returns
\* speaking_rate_adjust equal to 1.0 (rate 150) or 0.5 (rate 0) and never any
\* other value.
Ulp1 == [m |-> Pow2(MantissaBits - 1), e |-> F(1).e - (MantissaBits - 1)]

CreatedProfiles ==
  {voice_profiles[u][1] : u \in {x \in DOMAIN voice_profiles : voice_profiles[x] # None}}

SpeedReturned ==
  /\ CallIs("get_synthesis_parameters")
  /\ ~outcome.raised
  /\ outcome.value # None

RulesOfRate(profile) ==
  /\ ~Triggered(profile.emotion_profile[1], "fast_speaking_rate")
  /\ Triggered(profile.emotion_profile[1], "slow_speaking_rate")
       => profile.speaking_rate_wpm[1].v = FZero

C17_Original ==
  /\ \A profile \in CreatedProfiles :
       /\ profile.speaking_rate_wpm[1].v \in {FZero, F150}
       /\ RulesOfRate(profile)
  /\ SpeedReturned =>
       LET wpm == voice_profiles[call.user_id][1].speaking_rate_wpm[1].v
           adjust == outcome.value[1].speaking_rate_adjust.v
       IN  /\ adjust \in {F(1), FHalf}
           /\ wpm = F150 => adjust = F(1)
           /\ wpm = FZero => adjust = FHalf

\* C17 amended: the rate is 0 or 150 up to floating-point rounding (150 or a
\* float one unit in the last place away); the fast rule is never triggered
\* and the slow rule only when the rate is 0; speaking_rate_adjust is 0.5 for
\* rate 0, exactly 1.0 for rate exactly 150, and otherwise within one spacing
\* of the floats above 1.0 of 1.0.
C17_Theorem ==
  /\ \A profile \in CreatedProfiles :
       /\ \/ profile.speaking_rate_wpm[1].v = FZero
          \/ FLe(FAbs(FSub(profile.speaking_rate_wpm[1].v, F150)), Ulp150)
       /\ RulesOfRate(profile)
  /\ SpeedReturned =>
       LET wpm == voice_profiles[call.user_id][1].speaking_rate_wpm[1].v
           adjust == outcome.value[1].speaking_rate_adjust.v
       IN  /\ wpm = F150 => adjust = F(1)
           /\ wpm = FZero => adjust = FHalf
           /\ wpm # FZero => FLe(FAbs(FSub(adjust, F(1))), Ulp1)

\* the parameters of a created profile whose rate is zero have been returned
C17_Witness ==
  /\ SpeedReturned
  /\ voice_profiles[call.user_id][1].speaking_rate_wpm[1].v = FZero
  /\ outcome.value[1].speaking_rate_adjust.v = FHalf

====
